---- MODULE Spec2Model ----
(***************************************************************************)
(* A model of pulumi/runtime/rpc.py: property serialization, property      *)
(* deserialization and the resolution of a resource's output futures.      *)
(*                                                                         *)
(* Python values are one-entry functions tag :> payload, the tags being:   *)
(*   None, str, num, bool, list, dict           plain Python values        *)
(*   Struct, ListValue                          protobuf containers        *)
(*   Unknown                                    pulumi.output.Unknown      *)
(*   asset, archive                             objects with the fields    *)
(*                                              hasattr() finds on them    *)
(*   CustomResource, Output, awaitable,                                    *)
(*   input_type, object                         serializer inputs          *)
(*   raise                                      an exception propagating   *)
(***************************************************************************)
EXTENDS Integers, Sequences, FiniteSets, TLC

VARIABLES
    dry_run,           \* settings.is_dry_run()
    legacy_apply,      \* settings.is_legacy_apply_enabled()
    supports_secrets,  \* settings.monitor_supports_secrets()
    d_value,           \* deserializer: the wire value handed in
    d_keep,            \* deserializer: the keep_unknowns argument
    d_result,          \* deserializer: what the call returned (or NotRun)
    s_inputs,          \* serializer: the inputs bag, a sequence of <<key, value>>
    s_transformer,     \* serializer: the input_transformer argument
    s_result,          \* serializer: [struct, property_deps, raised] (or NotRun)
    pc,                \* the resource: "new", "bound" once transfer_properties ran,
                       \* "resolved" once the engine's response was handed in
    resolver_keys,     \* the keys of the resolvers dict, in insertion order
    slots,             \* per key, the value, known and secret futures
    readers,           \* per reader, what it awaits and what the await gave
    ncalls,            \* how many calls have invoked resolvers so far
    last_call,         \* the latest such call: its arguments and its outcome
    t_output,          \* translation: the output handed in
    t_typ,             \* translation: the typ argument (None when absent)
    t_result           \* translation: what the call returned (or NotRun)

codec_vars == <<d_value, d_keep, d_result, s_inputs, s_transformer, s_result>>
resource_vars == <<pc, resolver_keys, slots, readers, ncalls, last_call>>
translate_vars == <<t_output, t_typ, t_result>>
vars == <<dry_run, legacy_apply, supports_secrets, codec_vars, resource_vars,
         translate_vars>>

-----------------------------------------------------------------------------
(* Wire constants, rpc.py lines 35-48. *)

UNKNOWN == "04da6b54-80e4-46f7-96ec-b56ff0331ba9"
_special_sig_key == "4dabf18193072939515e22adb298388d"
_special_asset_sig == "c44067f5952c0a294b673a41bacd8c17"
_special_archive_sig == "0def7320c3a5731c473e5ecbe6d01bc7"
_special_secret_sig == "1b47061264138c4ac30d75fd1eb44270"

-----------------------------------------------------------------------------
(* Python values. *)

(* A value: its tag and its payload. *)
Mk(tag, payload) == tag :> payload
Tag(value) == CHOOSE tag \in DOMAIN value : TRUE
Val(value) == value[Tag(value)]

None == Mk("None", 0)
Str(s) == Mk("str", s)
Num(n) == Mk("num", n)
PyList(s) == Mk("list", s)
PyDict(f) == Mk("dict", f)
Struct(f) == Mk("Struct", f)
ListValue(s) == Mk("ListValue", s)
Unknown == Mk("Unknown", 0)
Asset(fields) == Mk("asset", fields)
Archive(fields) == Mk("archive", fields)
Raise(what) == Mk("raise", what)
NotRun == [op |-> "none", ret |-> None]

FileAsset(path) == Asset("path" :> path)
StringAsset(text) == Asset("text" :> text)
RemoteAsset(uri) == Asset("uri" :> uri)
AssetArchive(assets) == Archive("assets" :> assets)
FileArchive(path) == Archive("path" :> path)
RemoteArchive(uri) == Archive("uri" :> uri)

IsRaise(x) == Tag(x) = "raise"

(* The members of a sequence. *)
Range(s) == {s[i] : i \in DOMAIN s}

(* settings.is_dry_run(): whether this run is a preview. *)
is_dry_run == dry_run

-----------------------------------------------------------------------------
(* Deserialization, rpc.py lines 228-332. *)

is_rpc_secret(value) ==
    /\ Tag(value) = "dict"
    /\ _special_sig_key \in DOMAIN Val(value)
    /\ Val(value)[_special_sig_key] = Str(_special_secret_sig)

(* unwrap_rpc_secret as it would be if it gave the wrapper back *)
unwrap_rpc_secret_kept(value) == value

unwrap_rpc_secret(value) ==
    IF is_rpc_secret(value) THEN Val(value)["value"] ELSE value

(* The first exception raised while the members of a container were
   deserialized: list members in order, map members in the map's order. *)
FirstRaiseSeq(s) ==
    LET bad == {i \in DOMAIN s : IsRaise(s[i])}
    IN  s[CHOOSE i \in bad : \A j \in bad : i <= j]

FirstRaiseMap(f) == f[CHOOSE k \in DOMAIN f : IsRaise(f[k])]

RECURSIVE deserialize_property(_, _)
RECURSIVE deserialize_properties(_, _)

deserialize_properties(props_struct, keep_unknowns) ==
    LET f == Val(props_struct) IN
    IF _special_sig_key \in DOMAIN f THEN
        IF f[_special_sig_key] = Str(_special_asset_sig) THEN
            IF "path" \in DOMAIN f THEN FileAsset(f["path"])
            ELSE IF "text" \in DOMAIN f THEN StringAsset(f["text"])
            ELSE IF "uri" \in DOMAIN f THEN RemoteAsset(f["uri"])
            ELSE Raise("AssertionError: Invalid asset")
        ELSE IF f[_special_sig_key] = Str(_special_archive_sig) THEN
            IF "assets" \in DOMAIN f THEN
                \* keep_unknowns is not handed down (line 252)
                LET assets == deserialize_property(f["assets"], FALSE)
                IN  IF IsRaise(assets) THEN assets ELSE AssetArchive(assets)
            ELSE IF "path" \in DOMAIN f THEN FileArchive(f["path"])
            ELSE IF "uri" \in DOMAIN f THEN RemoteArchive(f["uri"])
            ELSE Raise("AssertionError: Invalid archive")
        ELSE IF f[_special_sig_key] = Str(_special_secret_sig) THEN
            IF "value" \notin DOMAIN f THEN Raise("ValueError: Value not set")
            ELSE
                \* keep_unknowns is not handed down (line 261)
                LET value == deserialize_property(f["value"], FALSE)
                IN  IF IsRaise(value) THEN value
                    ELSE PyDict(_special_sig_key :> Str(_special_secret_sig)
                                @@ "value" :> value)
        ELSE Raise("AssertionError: Unrecognized signature")
    ELSE
        LET values == [k \in DOMAIN f |-> deserialize_property(f[k], keep_unknowns)]
            kept == {k \in DOMAIN f : values[k] # None}
        IN  IF \E k \in DOMAIN f : IsRaise(values[k]) THEN FirstRaiseMap(values)
            ELSE PyDict([k \in kept |-> values[k]])

deserialize_property(value, keep_unknowns) ==
    IF value = Str(UNKNOWN) THEN
        IF is_dry_run \/ keep_unknowns THEN Unknown ELSE None
    ELSE IF Tag(value) = "ListValue" THEN
        LET values == [i \in DOMAIN Val(value) |->
                          deserialize_property(Val(value)[i], keep_unknowns)]
        IN  IF \E i \in DOMAIN values : IsRaise(values[i]) THEN FirstRaiseSeq(values)
            ELSE IF \E i \in DOMAIN values : is_rpc_secret(values[i]) THEN
                PyDict(_special_sig_key :> Str(_special_secret_sig)
                       @@ "value" :> PyList([i \in DOMAIN values |->
                                                unwrap_rpc_secret(values[i])]))
            ELSE PyList(values)
    ELSE IF Tag(value) = "Struct" THEN
        LET props == deserialize_properties(value, keep_unknowns)
        IN  IF Tag(props) = "dict"
               /\ \E k \in DOMAIN Val(props) : is_rpc_secret(Val(props)[k]) THEN
                PyDict(_special_sig_key :> Str(_special_secret_sig)
                       @@ "value" :> PyDict([k \in DOMAIN Val(props) |->
                                                unwrap_rpc_secret(Val(props)[k])]))
            ELSE props
    ELSE value

-----------------------------------------------------------------------------
(* Serialization, rpc.py lines 53-225. *)

CustomResource(name, id) == Mk("CustomResource", [name |-> name, id |-> id])
Output(value, is_known, is_secret, resources) ==
    Mk("Output", [value |-> value, is_known |-> is_known,
                  is_secret |-> is_secret, resources |-> resources])
Awaitable(value) == Mk("awaitable", value)
InputType(fields) == Mk("input_type", fields)
Object == Mk("object", 0)

(* The input_transformer argument: None, or the resource's
   translate_input_property, here the snake_case to camelCase table. *)
NoTransformer == "None"
CamelCase == "camelCase"
input_transformer_apply(input_transformer, k) ==
    IF input_transformer = CamelCase /\ k = "first_arg" THEN "firstArg" ELSE k

isLegalProtobufValue(value) ==
    Tag(value) \in {"None", "bool", "str", "num", "dict", "list"}

(* The members of a set, in the order an iteration visits them. *)
RECURSIVE SetToSeq(_)
SetToSeq(S) ==
    IF S = {} THEN <<>>
    ELSE LET x == CHOOSE y \in S : TRUE IN <<x>> \o SetToSeq(S \ {x})

(* A call's outcome: the value returned (or the exception raised) and the
   deps list as the call left it. *)
Ret(val, deps) == [val |-> val, deps |-> deps]

(* resource_deps as it would be without the append of line 116 *)
resource_deps_forgotten(deps, resource) == deps

(* lines 115-116: a custom resource is a dependency of the property *)
resource_deps(deps, resource) == Append(deps, resource.name)

(* monitor_supports_secrets as it would be if every monitor took secrets *)
monitor_supports_secrets_assumed == TRUE

(* settings.monitor_supports_secrets(): whether the engine takes secret
   values. *)
monitor_supports_secrets == supports_secrets

(* output_result as it would be without the is_known test of lines 186-187 *)
output_result_unchecked(output, value) ==
    IF output.is_secret /\ monitor_supports_secrets THEN
        PyDict(_special_sig_key :> Str(_special_secret_sig) @@ "value" :> value)
    ELSE value

(* lines 186-195: what an Output serializes as, value being its serialized value *)
output_result(output, value) ==
    IF ~output.is_known THEN Str(UNKNOWN)
    ELSE IF output.is_secret /\ monitor_supports_secrets THEN
        PyDict(_special_sig_key :> Str(_special_secret_sig) @@ "value" :> value)
    ELSE value

RECURSIVE serialize_property(_, _, _)
RECURSIVE serialize_elems(_, _, _, _)
RECURSIVE serialize_items(_, _, _, _, _, _)

(* lines 105-109: the elements of a list, in order *)
serialize_elems(elems, props, deps, input_transformer) ==
    IF Len(props) = Len(elems) THEN Ret(PyList(props), deps)
    ELSE LET r == serialize_property(elems[Len(props) + 1], deps, input_transformer)
         IN  IF IsRaise(r.val) THEN r
             ELSE serialize_elems(elems, Append(props, r.val), r.deps, input_transformer)

(* lines 211-219: the items of a dict, keys[i] being the i-th key visited *)
serialize_items(value, keys, obj, deps, input_transformer, transform_keys) ==
    IF keys = <<>> THEN Ret(PyDict(obj), deps)
    ELSE LET k == Head(keys)
             transformed_key ==
                 IF transform_keys /\ input_transformer # NoTransformer
                 THEN input_transformer_apply(input_transformer, k) ELSE k
             r == serialize_property(value[k], deps, input_transformer)
         IN  IF IsRaise(r.val) THEN r
             ELSE serialize_items(value, Tail(keys),
                                  [j \in DOMAIN obj \cup {transformed_key} |->
                                      IF j = transformed_key THEN r.val ELSE obj[j]],
                                  r.deps, input_transformer, transform_keys)

serialize_property(value, deps, input_transformer) ==
    IF Tag(value) = "list" THEN
        serialize_elems(Val(value), <<>>, deps, input_transformer)
    ELSE IF Tag(value) = "Unknown" THEN
        Ret(Str(UNKNOWN), deps)
    ELSE IF Tag(value) = "CustomResource" THEN
        serialize_property(Val(value).id, resource_deps(deps, Val(value)), input_transformer)
    ELSE IF Tag(value) = "asset" THEN
        LET field == IF "path" \in DOMAIN Val(value) THEN "path"
                     ELSE IF "text" \in DOMAIN Val(value) THEN "text"
                     ELSE IF "uri" \in DOMAIN Val(value) THEN "uri"
                     ELSE "none"
        IN  IF field = "none" THEN Ret(Raise("AssertionError: unknown asset type"), deps)
            ELSE LET r == serialize_property(Val(value)[field], deps, input_transformer)
                 IN  IF IsRaise(r.val) THEN r
                     ELSE Ret(PyDict(_special_sig_key :> Str(_special_asset_sig)
                                     @@ field :> r.val), r.deps)
    ELSE IF Tag(value) = "archive" THEN
        LET field == IF "assets" \in DOMAIN Val(value) THEN "assets"
                     ELSE IF "path" \in DOMAIN Val(value) THEN "path"
                     ELSE IF "uri" \in DOMAIN Val(value) THEN "uri"
                     ELSE "none"
        IN  IF field = "none" THEN Ret(Raise("AssertionError: unknown archive type"), deps)
            ELSE LET r == serialize_property(Val(value)[field], deps, input_transformer)
                 IN  IF IsRaise(r.val) THEN r
                     ELSE Ret(PyDict(_special_sig_key :> Str(_special_archive_sig)
                                     @@ field :> r.val), r.deps)
    ELSE IF Tag(value) = "awaitable" THEN
        serialize_property(Val(value), deps, input_transformer)
    ELSE IF Tag(value) = "Output" THEN
        LET output == Val(value)
            \* output.future() is an awaitable of the output's value
            r == serialize_property(Awaitable(output.value),
                                    deps \o SetToSeq(output.resources),
                                    input_transformer)
        IN  IF IsRaise(r.val) THEN r
            ELSE Ret(output_result(output, r.val), r.deps)
    ELSE IF Tag(value) \in {"input_type", "dict"} THEN
        serialize_items(Val(value), SetToSeq(DOMAIN Val(value)), <<>>, deps,
                        input_transformer, Tag(value) # "input_type")
    ELSE IF ~isLegalProtobufValue(value) THEN
        Ret(Raise("ValueError: unexpected input"), deps)
    ELSE Ret(value, deps)

(* What assigning a Python value into a protobuf Struct stores (line 90). *)
RECURSIVE ToProto(_)
ToProto(value) ==
    IF Tag(value) = "list" THEN ListValue([i \in DOMAIN Val(value) |-> ToProto(Val(value)[i])])
    ELSE IF Tag(value) = "dict" THEN Struct([k \in DOMAIN Val(value) |-> ToProto(Val(value)[k])])
    ELSE value

(* lines 77-93: inputs is the bag's items in order; property_deps is the
   caller's dict, filled in as the loop goes. *)
RECURSIVE serialize_properties_loop(_, _, _, _)
serialize_properties_loop(inputs, struct, property_deps, input_transformer) ==
    IF inputs = <<>> THEN
        [struct |-> Struct(struct), property_deps |-> property_deps, raised |-> None]
    ELSE LET k == Head(inputs)[1]
             r == serialize_property(Head(inputs)[2], <<>>, input_transformer)
             translated_name ==
                 IF input_transformer # NoTransformer
                 THEN input_transformer_apply(input_transformer, k) ELSE k
         IN  IF IsRaise(r.val) THEN
                 [struct |-> Struct(struct), property_deps |-> property_deps,
                  raised |-> r.val]
             ELSE IF r.val # None THEN
                 serialize_properties_loop(
                     Tail(inputs),
                     [j \in DOMAIN struct \cup {translated_name} |->
                         IF j = translated_name THEN ToProto(r.val) ELSE struct[j]],
                     [j \in DOMAIN property_deps \cup {translated_name} |->
                         IF j = translated_name THEN r.deps ELSE property_deps[j]],
                     input_transformer)
             ELSE serialize_properties_loop(Tail(inputs), struct, property_deps,
                                            input_transformer)

serialize_properties(inputs, property_deps, input_transformer) ==
    serialize_properties_loop(inputs, <<>>, property_deps, input_transformer)

-----------------------------------------------------------------------------
(* Output futures, rpc.py lines 350-387.  A future is asyncio's: pending
   until set_result or set_exception finishes it, and either call on a
   finished future raises InvalidStateError and changes nothing. *)

PendingFuture == [state |-> "PENDING", result |-> None, exception |-> None]
InvalidStateError == Str("InvalidStateError")

(* set_result as it would be if a finished future took a new result *)
set_result_overwriting(fut, result) ==
    [fut |-> [state |-> "FINISHED", result |-> result, exception |-> None],
     raised |-> None]

set_result(fut, result) ==
    IF fut.state # "PENDING" THEN [fut |-> fut, raised |-> InvalidStateError]
    ELSE [fut |-> [state |-> "FINISHED", result |-> result, exception |-> None],
          raised |-> None]

set_exception(fut, exception) ==
    IF fut.state # "PENDING" THEN [fut |-> fut, raised |-> InvalidStateError]
    ELSE [fut |-> [state |-> "FINISHED", result |-> None, exception |-> exception],
          raised |-> None]

(* lines 358-360: the three futures of one property *)
NewSlot == [value |-> PendingFuture, known |-> PendingFuture, secret |-> PendingFuture]

(* do_resolve as it would be if the secret future were left out *)
do_resolve_partial(slot, value, is_known, is_secret, failed) ==
    IF failed # None THEN
        LET a == set_exception(slot.value, failed) IN
        IF a.raised # None THEN [slot |-> slot, raised |-> a.raised] ELSE
        LET b == set_exception(slot.known, failed) IN
        [slot |-> [slot EXCEPT !.value = a.fut, !.known = b.fut], raised |-> b.raised]
    ELSE
        LET a == set_result(slot.value, value) IN
        IF a.raised # None THEN [slot |-> slot, raised |-> a.raised] ELSE
        LET b == set_result(slot.known, Mk("bool", is_known)) IN
        [slot |-> [slot EXCEPT !.value = a.fut, !.known = b.fut], raised |-> b.raised]

(* lines 362-378.  slot holds the three futures bound by functools.partial;
   the outcome is the futures as the call left them and what it raised. *)
do_resolve(slot, value, is_known, is_secret, failed) ==
    IF failed # None THEN
        LET a == set_exception(slot.value, failed) IN
        IF a.raised # None THEN [slot |-> slot, raised |-> a.raised] ELSE
        LET b == set_exception(slot.known, failed) IN
        IF b.raised # None
        THEN [slot |-> [slot EXCEPT !.value = a.fut], raised |-> b.raised] ELSE
        LET c == set_exception(slot.secret, failed) IN
        [slot |-> [value |-> a.fut, known |-> b.fut, secret |-> c.fut],
         raised |-> c.raised]
    ELSE
        LET a == set_result(slot.value, value) IN
        IF a.raised # None THEN [slot |-> slot, raised |-> a.raised] ELSE
        LET b == set_result(slot.known, Mk("bool", is_known)) IN
        IF b.raised # None
        THEN [slot |-> [slot EXCEPT !.value = a.fut], raised |-> b.raised] ELSE
        LET c == set_result(slot.secret, Mk("bool", is_secret)) IN
        [slot |-> [value |-> a.fut, known |-> b.fut, secret |-> c.fut],
         raised |-> c.raised]

(* lines 352-387: the names that get a resolver, in the order of props.keys() *)
transfer_properties(props) == SelectSeq(props, LAMBDA name : name \notin {"id", "urn"})

-----------------------------------------------------------------------------
(* Key translation and typed outputs, rpc.py lines 417-542.  A declared
   type is None (no type) or (origin or class) :> (type arguments). *)

Type(name, args) == Mk(name, args)
NoneType == Type("NoneType", <<>>)
StrType == Type("str", <<>>)
FloatType == Type("float", <<>>)
Optional(tp) == Type("Union", <<tp, NoneType>>)
DictOf(tp) == Type("Dict", <<StrType, tp>>)
ListOf(tp) == Type("List", <<tp>>)
Foo == Type("Foo", <<>>)
Bar == Type("Bar", <<>>)

(* an instance of an output type: the class and the dict handed to __init__ *)
Instance(cls, d) == Mk("instance", [cls |-> cls, d |-> d])

(* the resource's translate_output_property *)
translate_output_property(prop) ==
    IF prop = "firstArg" THEN "first_arg"
    ELSE IF prop = "secondArg" THEN "second_arg"
    ELSE prop

_is_output_type(cls) == Tag(cls) \in {"Foo", "Bar"}

_get_args(tp) == Val(tp)

RECURSIVE _is_optional_type(_)
_is_optional_type(tp) ==
    \/ tp = NoneType
    \/ /\ Tag(tp) = "Union"
       /\ \E i \in DOMAIN Val(tp) : _is_optional_type(Val(tp)[i])

(* get_type_hints(cls) by the property's wire name: the annotations of the
   output type Foo, of the output type Bar (those of its properties that the
   outputs below carry) and of the resource's class. *)
cls_hints(cls) ==
    IF cls = "Foo" THEN ("firstArg" :> StrType @@ "secondArg" :> FloatType)
    ELSE IF cls = "Bar" THEN
        (   "thirdOptionalArg" :> Optional(Foo)
         @@ "fourthArg" :> DictOf(Foo)
         @@ "sixthOptionalArg" :> DictOf(Optional(ListOf(Foo))) )
    ELSE IF cls = "Resource" THEN ("typed" :> Foo @@ "x" :> StrType)
    ELSE <<>>

(* lines 444-460: Optional[T] is Union[T, None]; take T *)
unwrap(val) == IF _is_optional_type(val) THEN _get_args(val)[1] ELSE val

(* The property types of an output type or of the resource's class, by the
   property's wire name. *)
_output_types(cls) ==
    LET cls_hints_ == cls_hints(cls)
    IN  [name \in DOMAIN cls_hints_ |-> unwrap(cls_hints_[name])]

(* dict.get *)
Get(d, k) == IF k \in DOMAIN d THEN d[k] ELSE None

(* typed_result as it would be if the translated dict were returned for an
   output type too *)
typed_result_untyped(typ, translated) == translated

(* line 528: an output type is instantiated on the translated dict *)
typed_result(typ, translated) ==
    IF typ # None /\ _is_output_type(typ) THEN Instance(Tag(typ), Val(translated))
    ELSE translated

RECURSIVE translate_output_properties(_, _)
RECURSIVE translate_items(_, _, _, _)

(* lines 520-524: the comprehension over output.items() *)
translate_items(output, keys, typ, translated) ==
    IF keys = <<>> THEN PyDict(translated)
    ELSE LET k == Head(keys)
             get_type ==
                 IF typ # None /\ _is_output_type(typ) THEN Get(_output_types(Tag(typ)), k)
                 ELSE IF typ # None /\ Len(_get_args(typ)) = 2
                         /\ _get_args(typ)[1] = StrType THEN _get_args(typ)[2]
                 ELSE None
             v == translate_output_properties(output[k], get_type)
             tk == translate_output_property(k)
         IN  IF IsRaise(v) THEN v
             ELSE translate_items(output, Tail(keys), typ,
                                  [j \in DOMAIN translated \cup {tk} |->
                                      IF j = tk THEN v ELSE translated[j]])

translate_output_properties(output, typ0) ==
    LET malformed == /\ typ0 # None
                     /\ _is_optional_type(typ0)
                     /\ ~(Len(_get_args(typ0)) = 2 /\ _get_args(typ0)[2] = NoneType)
        typ == IF typ0 # None /\ _is_optional_type(typ0) /\ ~malformed
               THEN _get_args(typ0)[1] ELSE typ0
    IN  IF malformed THEN Raise("AssertionError")
        ELSE IF Tag(output) = "dict" THEN
            LET translated == translate_items(Val(output), SetToSeq(DOMAIN Val(output)),
                                              typ, <<>>)
            IN  IF IsRaise(translated) THEN translated
                ELSE typed_result(typ, translated)
        ELSE IF Tag(output) = "list" THEN
            LET element_type == IF typ # None /\ Len(_get_args(typ)) = 1
                                THEN _get_args(typ)[1] ELSE None
                values == [i \in DOMAIN Val(output) |->
                              translate_output_properties(Val(output)[i], element_type)]
            IN  IF \E i \in DOMAIN values : IsRaise(values[i])
                THEN FirstRaiseSeq(values) ELSE PyList(values)
        ELSE output

(* lines 545-558 *)
RECURSIVE contains_unknowns(_)
contains_unknowns(val) ==
    \/ Tag(val) = "Unknown"
    \/ Tag(val) = "dict" /\ \E k \in DOMAIN Val(val) : contains_unknowns(Val(val)[k])
    \/ Tag(val) = "list" /\ \E i \in DOMAIN Val(val) : contains_unknowns(Val(val)[i])

-----------------------------------------------------------------------------
(* Output resolution, rpc.py lines 561-650.  A Python dict whose iteration
   order matters is a sequence of <<key, value>> items in insertion order. *)

Keys(items) == {items[i][1] : i \in DOMAIN items}
Lookup(items, k) == items[CHOOSE i \in DOMAIN items : items[i][1] = k][2]
Store(items, k, v) ==
    IF k \in Keys(items)
    THEN [i \in DOMAIN items |-> IF items[i][1] = k THEN <<k, v>> ELSE items[i]]
    ELSE Append(items, <<k, v>>)

(* line 616, on a dict or an instance of a dict subclass *)
is_secret_value(value) ==
    LET d == IF Tag(value) = "instance" THEN Val(value).d ELSE Val(value)
    IN  /\ Tag(value) \in {"dict", "instance"}
        /\ _special_sig_key \in DOMAIN d
        /\ d[_special_sig_key] = Str(_special_secret_sig)

secret_payload(value) ==
    IF Tag(value) = "instance" THEN Val(value).d["value"] ELSE Val(value)["value"]

(* known_of as it would be if a real deployment took the preview's branch *)
known_of_as_preview(value) == value # None

(* lines 623-630: the is_known a resolver gets for a property that has a value *)
known_of(value) == IF ~is_dry_run THEN TRUE ELSE value # None

(* backfills as it would be without the legacy-apply disjunct of line 580 *)
backfills_apply_only == ~is_dry_run

(* lines 580: whether the inputs stand in for what the engine left out *)
backfills == ~is_dry_run \/ legacy_apply

(* all_properties as a value, so that a merge gives it or an exception *)
Items(items) == Mk("items", items)

(* lines 572-578: order is the order outputs' items are visited in *)
RECURSIVE merge_outputs(_, _, _)
merge_outputs(deserialized, order, all_properties) ==
    IF order = <<>> THEN Items(all_properties)
    ELSE LET key == Head(order)
             translated_key == translate_output_property(key)
             translated_value ==
                 translate_output_properties(deserialized[key],
                                             Get(_output_types("Resource"), key))
         IN  IF IsRaise(translated_value) THEN translated_value
             ELSE merge_outputs(deserialized, Tail(order),
                                Store(all_properties, translated_key, translated_value))

(* lines 581-586: order is the order serialized_props' items are visited in *)
RECURSIVE merge_inputs(_, _, _)
merge_inputs(serialized_props, order, all_properties) ==
    IF order = <<>> THEN Items(all_properties)
    ELSE LET key == Head(order)
             translated_key == translate_output_property(key)
             value == deserialize_property(serialized_props[key], FALSE)
             translated_value ==
                 IF IsRaise(value) THEN value
                 ELSE translate_output_properties(value,
                                                  Get(_output_types("Resource"), key))
         IN  IF translated_key \in Keys(all_properties)
             THEN merge_inputs(serialized_props, Tail(order), all_properties)
             ELSE IF IsRaise(translated_value) THEN translated_value
             ELSE merge_inputs(serialized_props, Tail(order),
                               Store(all_properties, translated_key, translated_value))

(* lines 566-586 *)
all_properties_of(serialized_props, outputs, order_out, order_in) ==
    LET deserialized == deserialize_properties(outputs, FALSE) IN
    IF IsRaise(deserialized) THEN deserialized
    ELSE IF Tag(deserialized) # "dict" THEN Raise("AttributeError")
    ELSE LET merged == merge_outputs(Val(deserialized),
                                     SelectSeq(order_out,
                                               LAMBDA k : k \in DOMAIN Val(deserialized)),
                                     <<>>)
         IN  IF IsRaise(merged) \/ ~backfills THEN merged
             ELSE merge_inputs(Val(serialized_props), order_in, Val(merged))

(* The progress of a routine that calls resolvers: the futures, how often
   each resolver has been called in this run, and the exception that ended
   the run (None while it runs). *)
Progress(futures, calls, raised) ==
    [futures |-> futures, calls |-> calls, raised |-> raised]

(* resolve(value, is_known, is_secret, failed) with resolve = resolvers[key] *)
call_resolver(p, key, value, is_known, is_secret, failed) ==
    LET r == do_resolve(p.futures[key], value, is_known, is_secret, failed)
    IN  Progress([p.futures EXCEPT ![key] = r.slot],
                 [p.calls EXCEPT ![key] = @ + 1],
                 r.raised)

(* lines 588-630 *)
RECURSIVE resolve_present(_, _, _)
resolve_present(all_properties, resolvers, p) ==
    IF all_properties = <<>> \/ p.raised # None THEN p
    ELSE LET key == Head(all_properties)[1]
             value == Head(all_properties)[2]
             rest == Tail(all_properties)
         IN  IF key \in {"id", "urn"} \/ key \notin Range(resolvers)
             THEN resolve_present(rest, resolvers, p)
             ELSE IF is_secret_value(value)
             THEN resolve_present(rest, resolvers,
                      call_resolver(p, key, secret_payload(value),
                                    known_of(secret_payload(value)), TRUE, None))
             ELSE resolve_present(rest, resolvers,
                      call_resolver(p, key, value, known_of(value), FALSE, None))

(* resolve_absent as it would be without the loop of lines 635-637 *)
resolve_absent_skipped(all_properties, resolvers, p) == p

(* lines 635-637 *)
RECURSIVE resolve_absent(_, _, _)
resolve_absent(all_properties, resolvers, p) ==
    IF resolvers = <<>> \/ p.raised # None THEN p
    ELSE LET key == Head(resolvers)
         IN  IF key \notin Keys(all_properties)
             THEN resolve_absent(all_properties, Tail(resolvers),
                                 call_resolver(p, key, None, ~is_dry_run, FALSE, None))
             ELSE resolve_absent(all_properties, Tail(resolvers), p)

NoCalls(resolvers) == [key \in Range(resolvers) |-> 0]

(* resolve_outputs as it would be if it resolved the outputs it finds no
   value for before it gave up on an exception raised while decoding *)
resolve_outputs_eager(serialized_props, outputs, resolvers, futures, order_out, order_in) ==
    LET all_properties == all_properties_of(serialized_props, outputs, order_out, order_in)
        start == Progress(futures, NoCalls(resolvers), None)
    IN  IF IsRaise(all_properties)
        THEN [resolve_absent(<<>>, resolvers, start) EXCEPT !.raised = all_properties]
        ELSE resolve_absent(Val(all_properties), resolvers,
                            resolve_present(Val(all_properties), resolvers, start))

(* lines 561-637 *)
resolve_outputs(serialized_props, outputs, resolvers, futures, order_out, order_in) ==
    LET all_properties == all_properties_of(serialized_props, outputs, order_out, order_in)
        start == Progress(futures, NoCalls(resolvers), None)
    IN  IF IsRaise(all_properties) THEN [start EXCEPT !.raised = all_properties]
        ELSE resolve_absent(Val(all_properties), resolvers,
                            resolve_present(Val(all_properties), resolvers, start))

(* lines 648-650 *)
RECURSIVE poison(_, _, _)
poison(resolvers, exn, p) ==
    IF resolvers = <<>> \/ p.raised # None THEN p
    ELSE poison(Tail(resolvers), exn,
                call_resolver(p, Head(resolvers), None, FALSE, FALSE, exn))

(* resolve_outputs_due_to_exception as it would be if its loop ended after
   the first resolver *)
resolve_outputs_due_to_exception_first(resolvers, futures, exn) ==
    poison(IF resolvers = <<>> THEN <<>> ELSE <<Head(resolvers)>>, exn,
           Progress(futures, NoCalls(resolvers), None))

resolve_outputs_due_to_exception(resolvers, futures, exn) ==
    poison(resolvers, exn, Progress(futures, NoCalls(resolvers), None))

-----------------------------------------------------------------------------
(* The values the calls are exercised on. *)

MaxWireDepth == 3
MaxInputDepth == 2

WireLeaves ==
    { None, Str("a"), Num(1), Str(UNKNOWN), Struct(<<>>), ListValue(<<>>),
      Struct(_special_sig_key :> Str(_special_asset_sig)),
      Struct(_special_sig_key :> Str(_special_archive_sig) @@ "uri" :> Str("u")),
      Struct(_special_sig_key :> Str("bogus")) }

WireWrap(w) ==
    { ListValue(<<w>>), ListValue(<<Str("a"), w>>),
      Struct("k" :> w), Struct("j" :> Str("b") @@ "k" :> w),
      Struct(_special_sig_key :> Str(_special_secret_sig) @@ "value" :> w),
      Struct(_special_sig_key :> Str(_special_archive_sig) @@ "assets" :> w),
      Struct(_special_sig_key :> Str(_special_asset_sig) @@ "text" :> w) }

RECURSIVE WireVals(_)
WireVals(d) ==
    IF d = 0 THEN WireLeaves
    ELSE LET S == WireVals(d - 1) IN S \cup UNION {WireWrap(w) : w \in S}

InputLeaves == { None, Str("a"), Unknown, Object, Asset(<<>>) }

InputWrap(w) ==
    { PyList(<<w>>), PyList(<<w, Str("a")>>),
      PyDict("first_arg" :> w), InputType("first_arg" :> w),
      Asset("path" :> w), Asset("text" :> w),
      Asset("path" :> Str("p") @@ "uri" :> w),
      Archive("assets" :> w), Archive("uri" :> w),
      Archive("path" :> Str("p") @@ "uri" :> w),
      Awaitable(w),
      CustomResource("r1", w),
      Output(w, TRUE, FALSE, {}), Output(w, FALSE, FALSE, {"r2"}),
      Output(w, TRUE, TRUE, {"r2", "r3"}), Output(w, FALSE, TRUE, {}) }

RECURSIVE InputVals(_)
InputVals(d) ==
    IF d = 0 THEN InputLeaves
    ELSE LET S == InputVals(d - 1) IN S \cup UNION {InputWrap(w) : w \in S}

(* Input bags around a value: alone, and beside a second property whose key
   translates to the same name, before it and after it. *)
InputBags(w) ==
    { << <<"x", w>> >>,
      << <<"first_arg", w>>, <<"firstArg", CustomResource("r4", Str("id4"))>> >>,
      << <<"firstArg", Str("b")>>, <<"first_arg", w>> >> }

-----------------------------------------------------------------------------
(* A resource and the calls that resolve its outputs. *)

MaxKeys == 2
MaxCalls == 2
MaxReaders == 1

NoCall ==
    [op |-> "none", serialized_props |-> None, outputs |-> None, exn |-> None,
     key |-> "none", fresh |-> FALSE, all_properties |-> <<>>, calls |-> <<>>,
     raised |-> None]

NotReading == [st |-> "idle", key |-> "none", cell |-> "none", suspended |-> FALSE,
               result |-> None, exception |-> None]

NoResource ==
    /\ pc = "new"
    /\ resolver_keys = <<>>
    /\ slots = <<>>
    /\ readers = <<>>
    /\ ncalls = 0
    /\ last_call = NoCall

NoTranslate ==
    /\ t_output = None
    /\ t_typ = None
    /\ t_result = NotRun

NoCodec ==
    /\ supports_secrets = FALSE
    /\ d_value = None
    /\ d_keep = FALSE
    /\ d_result = NotRun
    /\ s_inputs = <<>>
    /\ s_transformer = NoTransformer
    /\ s_result = NotRun

(* The sequences that enumerate the set S, each member once. *)
RECURSIVE Orders(_)
Orders(S) ==
    IF S = {} THEN {<<>>}
    ELSE UNION {{<<x>> \o o : o \in Orders(S \ {x})} : x \in S}

(* The Structs with at most MaxKeys of the keys, values[k] being the values
   key k may carry. *)
Structs(values) ==
    UNION {{Struct(f) : f \in [K -> UNION {values[k] : k \in K}]}
              : K \in {K \in SUBSET DOMAIN values : Cardinality(K) <= MaxKeys}}

WellKeyed(struct, values) == \A k \in DOMAIN Val(struct) : Val(struct)[k] \in values[k]

Secret(w) == Struct(_special_sig_key :> Str(_special_secret_sig) @@ "value" :> w)

PropNames == {"x", "first_arg", "id"}

OutputValues ==
    LET any == {Str("out"), Str(UNKNOWN), Secret(Str("s"))}
    IN  ("x" :> any @@ "firstArg" :> {Str("out"), Secret(Str("s"))}
         @@ "first_arg" :> {Str("other")} @@ "id" :> {Str("id1")})

InputValues ==
    ("x" :> {Str("seed"), Str(UNKNOWN)} @@ "firstArg" :> {Str("seed")})

OutputStructs == {w \in Structs(OutputValues) : WellKeyed(w, OutputValues)}
InputStructs == {w \in Structs(InputValues) : WellKeyed(w, InputValues)}

Exceptions == {Str("E1"), Str("E2")}

(* What a resolver may be called with: [value, is_known, is_secret, failed]. *)
Resolutions ==
    { [value |-> Str("v"), is_known |-> TRUE, is_secret |-> FALSE, failed |-> None],
      [value |-> None, is_known |-> FALSE, is_secret |-> TRUE, failed |-> None],
      [value |-> None, is_known |-> FALSE, is_secret |-> FALSE, failed |-> Str("E1")] }

AllPending ==
    \A key \in DOMAIN slots :
        \A cell \in {"value", "known", "secret"} : slots[key][cell].state = "PENDING"

InitResource ==
    /\ dry_run \in BOOLEAN
    /\ legacy_apply \in BOOLEAN
    /\ NoCodec
    /\ NoResource
    /\ NoTranslate

(* resolvers = transfer_properties(res, props), at the resource's construction *)
TransferPropertiesOf(Names) ==
    /\ pc = "new"
    /\ \E names \in SUBSET Names : \E props \in Orders(names) :
          /\ resolver_keys' = transfer_properties(props)
          /\ slots' = [key \in Range(transfer_properties(props)) |-> NewSlot]
    /\ pc' = "bound"
    /\ readers' = [r \in 1..MaxReaders |-> NotReading]
    /\ UNCHANGED <<dry_run, legacy_apply, supports_secrets, codec_vars, translate_vars,
                   ncalls, last_call>>

TransferProperties == TransferPropertiesOf(PropNames)

(* await resolve_outputs(res, serialized_props, outputs, resolvers), when
   the engine's response to the registration arrives.  The coroutine has no
   await in it, so it runs from start to end in one step. *)
ResolveOutputs(Props, Outputs) ==
    /\ pc = "bound"
    /\ pc' = "resolved"
    /\ ncalls < MaxCalls
    /\ \E serialized_props \in Props, outputs \in Outputs :
       \E order_out \in Orders(DOMAIN Val(outputs)),
          order_in \in Orders(DOMAIN Val(serialized_props)) :
       \E r \in {resolve_outputs(serialized_props, outputs, resolver_keys, slots,
                                 order_out, order_in)},
          all_properties \in {all_properties_of(serialized_props, outputs,
                                                order_out, order_in)} :
          /\ slots' = r.futures
          /\ last_call' = [NoCall EXCEPT
                 !.op = "resolve_outputs",
                 !.serialized_props = serialized_props,
                 !.outputs = outputs,
                 !.fresh = AllPending,
                 !.all_properties = IF IsRaise(all_properties) THEN <<>>
                                    ELSE Val(all_properties),
                 !.calls = r.calls,
                 !.raised = r.raised]
    /\ ncalls' = ncalls + 1
    /\ UNCHANGED <<dry_run, legacy_apply, supports_secrets, codec_vars, translate_vars,
                   resolver_keys, readers>>

(* resolve_outputs_due_to_exception(resolvers, exn) *)
ResolveOutputsDueToException ==
    /\ pc \in {"bound", "resolved"}
    /\ ncalls < MaxCalls
    /\ \E exn \in Exceptions :
          LET r == resolve_outputs_due_to_exception(resolver_keys, slots, exn)
          IN  /\ slots' = r.futures
              /\ last_call' = [NoCall EXCEPT
                     !.op = "resolve_outputs_due_to_exception",
                     !.exn = exn,
                     !.fresh = AllPending,
                     !.calls = r.calls,
                     !.raised = r.raised]
    /\ ncalls' = ncalls + 1
    /\ UNCHANGED <<dry_run, legacy_apply, supports_secrets, codec_vars, translate_vars,
                   pc, resolver_keys, readers>>

(* resolvers[key](value, is_known, is_secret, failed), by any holder of the dict *)
InvokeResolver ==
    /\ pc \in {"bound", "resolved"}
    /\ ncalls < MaxCalls
    /\ \E key \in Range(resolver_keys), a \in Resolutions :
          LET r == call_resolver(Progress(slots, NoCalls(resolver_keys), None), key,
                                 a.value, a.is_known, a.is_secret, a.failed)
          IN  /\ slots' = r.futures
              /\ last_call' = [NoCall EXCEPT
                     !.op = "resolver",
                     !.key = key,
                     !.exn = a.failed,
                     !.fresh = AllPending,
                     !.calls = r.calls,
                     !.raised = r.raised]
    /\ ncalls' = ncalls + 1
    /\ UNCHANGED <<dry_run, legacy_apply, supports_secrets, codec_vars, translate_vars,
                   pc, resolver_keys, readers>>

(* What `await fut` gives once fut is finished. *)
Awaited(reader, fut) ==
    [reader EXCEPT !.st = "done", !.result = fut.result, !.exception = fut.exception]

(* A coroutine starts awaiting one future of an output: it gets the outcome
   at once when the future is finished, and is suspended otherwise. *)
Await ==
    /\ pc \in {"bound", "resolved"}
    /\ \E r \in DOMAIN readers, key \in Range(resolver_keys),
          cell \in {"value", "known", "secret"} :
          /\ readers[r].st = "idle"
          /\ LET reader == [NotReading EXCEPT !.st = "waiting", !.key = key,
                                              !.cell = cell]
             IN  readers' = [readers EXCEPT ![r] =
                     IF slots[key][cell].state = "PENDING"
                     THEN [reader EXCEPT !.suspended = TRUE]
                     ELSE Awaited(reader, slots[key][cell])]
    /\ UNCHANGED <<dry_run, legacy_apply, supports_secrets, codec_vars, translate_vars,
                   pc, resolver_keys, slots, ncalls, last_call>>

(* The event loop resumes a coroutine suspended on a future now finished. *)
Wake ==
    /\ \E r \in DOMAIN readers :
          /\ readers[r].st = "waiting"
          /\ slots[readers[r].key][readers[r].cell].state # "PENDING"
          /\ readers' = [readers EXCEPT ![r] =
                 Awaited(@, slots[readers[r].key][readers[r].cell])]
    /\ UNCHANGED <<dry_run, legacy_apply, supports_secrets, codec_vars, translate_vars,
                   pc, resolver_keys, slots, ncalls, last_call>>

Next ==
    \/ TransferProperties
    \/ ResolveOutputs(InputStructs, OutputStructs)
    \/ ResolveOutputsDueToException
    \/ InvokeResolver

Spec == InitResource /\ [][Next]_vars

(* The same calls with coroutines awaiting the outputs, on fewer responses. *)
AwaitedProps == {Struct(<<>>), Struct("x" :> Str("seed"))}
AwaitedOutputs == {Struct(<<>>), Struct("x" :> Str("out")),
                   Struct("firstArg" :> Secret(Str("s")))}

NextAwait ==
    \/ TransferProperties
    \/ ResolveOutputs(AwaitedProps, AwaitedOutputs)
    \/ ResolveOutputsDueToException
    \/ InvokeResolver
    \/ Await
    \/ Wake

SpecAwait == InitResource /\ [][NextAwait]_vars

-----------------------------------------------------------------------------
(* The same calls on a resource with a property of an output type, and on
   responses that cannot be decoded. *)
TypedPropNames == {"typed", "x"}

TypedOutputValues ==
    (   "typed" :> { Struct("firstArg" :> Str("out")),
                     Secret(Struct("firstArg" :> Str("out"))),
                     Struct("firstArg" :> Secret(Str("out"))),
                     Struct(_special_sig_key :> Str("bogus")) }
     @@ "x" :> { Str("out"), Secret(Str("out")), Secret(ListValue(<<Str("out")>>)),
                 Struct(_special_sig_key :> Str(_special_asset_sig)) } )

TypedInputValues ==
    (   "typed" :> { Struct("firstArg" :> Str("seed")),
                     Struct(_special_sig_key :> Str(_special_archive_sig)) }
     @@ "x" :> { Str("seed") } )

TypedOutputs == {w \in Structs(TypedOutputValues) : WellKeyed(w, TypedOutputValues)}
TypedProps == {w \in Structs(TypedInputValues) : WellKeyed(w, TypedInputValues)}

NextTyped ==
    \/ TransferPropertiesOf(TypedPropNames)
    \/ ResolveOutputs(TypedProps, TypedOutputs)
    \/ ResolveOutputsDueToException

SpecTyped == InitResource /\ [][NextTyped]_vars

-----------------------------------------------------------------------------

(* translate_output_properties, run on one output and one declared type. *)

MaxOutputDepth == 4

OutputLeaves == { Str("hello"), Num(42) }

OutputWrap(w) ==
    { PyList(<<w>>),
      PyDict("firstArg" :> w), PyDict("firstArg" :> Str("hello") @@ "first_arg" :> w),
      PyDict("thirdOptionalArg" :> w), PyDict("fourthArg" :> w),
      PyDict("sixthOptionalArg" :> w), PyDict("foo" :> w) }

RECURSIVE OutputVals(_)
OutputVals(d) ==
    IF d = 0 THEN OutputLeaves
    ELSE LET S == OutputVals(d - 1) IN S \cup UNION {OutputWrap(w) : w \in S}

DeclaredTypes == { None, Foo, Bar, Optional(Foo), Optional(Bar) }

InitTranslate ==
    /\ dry_run = FALSE
    /\ legacy_apply = FALSE
    /\ supports_secrets = FALSE
    /\ NoCodec
    /\ NoResource
    /\ t_output \in OutputVals(MaxOutputDepth)
    /\ t_typ \in DeclaredTypes
    /\ t_result = NotRun

(* rpc.translate_output_properties(res, output, typ) *)
TranslateOutputProperties ==
    /\ t_result = NotRun
    /\ t_result' = [op |-> "translate_output_properties",
                    ret |-> translate_output_properties(t_output, t_typ)]
    /\ UNCHANGED <<dry_run, legacy_apply, supports_secrets, codec_vars, resource_vars,
                   t_output, t_typ>>

NextTranslate == TranslateOutputProperties

SpecTranslate == InitTranslate /\ [][NextTranslate]_vars

-----------------------------------------------------------------------------

(* The serializer, run on one inputs bag. *)

InitSer ==
    /\ dry_run = FALSE
    /\ legacy_apply = FALSE
    /\ supports_secrets \in BOOLEAN
    /\ d_value = None
    /\ d_keep = FALSE
    /\ d_result = NotRun
    /\ \E w \in InputVals(MaxInputDepth) : s_inputs \in InputBags(w)
    /\ s_transformer \in {NoTransformer, CamelCase}
    /\ s_result = NotRun
    /\ NoResource
    /\ NoTranslate

(* await serialize_properties(inputs, {}, input_transformer) *)
SerializeProperties ==
    /\ s_result = NotRun
    /\ s_result' = [op |-> "serialize_properties",
                    ret |-> serialize_properties(s_inputs, <<>>, s_transformer)]
    /\ UNCHANGED <<dry_run, legacy_apply, supports_secrets, d_value, d_keep,
                   d_result, s_inputs, s_transformer, resource_vars,
                   translate_vars>>

(* await serialize_property(value, [], input_transformer), value being the
   bag's first property *)
SerializeProperty ==
    /\ s_result = NotRun
    /\ s_result' = [op |-> "serialize_property",
                    ret |-> serialize_property(s_inputs[1][2], <<>>, s_transformer)]
    /\ UNCHANGED <<dry_run, legacy_apply, supports_secrets, d_value, d_keep,
                   d_result, s_inputs, s_transformer, resource_vars,
                   translate_vars>>

NextSer == SerializeProperties \/ SerializeProperty

SpecSer == InitSer /\ [][NextSer]_vars

-----------------------------------------------------------------------------
(* The deserializer, run on one wire value. *)

InitDe ==
    /\ dry_run \in BOOLEAN
    /\ legacy_apply = FALSE
    /\ supports_secrets = FALSE
    /\ d_value \in WireVals(MaxWireDepth)
    /\ d_keep \in BOOLEAN
    /\ d_result = NotRun
    /\ s_inputs = <<>>
    /\ s_transformer = NoTransformer
    /\ s_result = NotRun
    /\ NoResource
    /\ NoTranslate

(* deserialize_property(value, keep_unknowns) *)
DeserializeProperty ==
    /\ d_result = NotRun
    /\ d_result' = [op |-> "deserialize_property",
                    ret |-> deserialize_property(d_value, d_keep)]
    /\ UNCHANGED <<dry_run, legacy_apply, supports_secrets, d_value, d_keep,
                   s_inputs, s_transformer, s_result, resource_vars,
                   translate_vars>>

(* deserialize_properties(props_struct, keep_unknowns) *)
DeserializeProperties ==
    /\ d_result = NotRun
    /\ Tag(d_value) = "Struct"
    /\ d_result' = [op |-> "deserialize_properties",
                    ret |-> deserialize_properties(d_value, d_keep)]
    /\ UNCHANGED <<dry_run, legacy_apply, supports_secrets, d_value, d_keep,
                   s_inputs, s_transformer, s_result, resource_vars,
                   translate_vars>>

NextDe == DeserializeProperty \/ DeserializeProperties

SpecDe == InitDe /\ [][NextDe]_vars

-----------------------------------------------------------------------------
(* A value sent and received: serialized, stored in a protobuf Struct, and
   deserialized again. *)

MaxPlainDepth == 3

PlainLeaves == { None, Str("a"), Num(1), Str(UNKNOWN), PyList(<<>>), PyDict(<<>>) }

PlainWrap(w) ==
    { PyList(<<w>>), PyList(<<w, Str("a")>>),
      PyDict("k" :> w), PyDict("j" :> Str("b") @@ "k" :> w),
      PyDict(_special_sig_key :> w),
      PyDict(_special_sig_key :> Str(_special_secret_sig) @@ "value" :> w) }

RECURSIVE PlainVals(_)
PlainVals(d) ==
    IF d = 0 THEN PlainLeaves
    ELSE LET S == PlainVals(d - 1) IN S \cup UNION {PlainWrap(w) : w \in S}

InitRound ==
    /\ dry_run \in BOOLEAN
    /\ legacy_apply = FALSE
    /\ supports_secrets = FALSE
    /\ d_value = None
    /\ d_keep \in BOOLEAN
    /\ d_result = NotRun
    /\ \E w \in PlainVals(MaxPlainDepth) : s_inputs = << <<"x", w>> >>
    /\ s_transformer = NoTransformer
    /\ s_result = NotRun
    /\ NoResource
    /\ NoTranslate

(* deserialize_property on what serialize_property returned, as a protobuf
   value *)
ReceiveProperty ==
    /\ s_result.op = "serialize_property"
    /\ ~IsRaise(s_result.ret.val)
    /\ d_result = NotRun
    /\ d_value' = ToProto(s_result.ret.val)
    /\ d_result' = [op |-> "deserialize_property",
                    ret |-> deserialize_property(ToProto(s_result.ret.val), d_keep)]
    /\ UNCHANGED <<dry_run, legacy_apply, supports_secrets, d_keep,
                   s_inputs, s_transformer, s_result, resource_vars,
                   translate_vars>>

(* deserialize_properties on the struct serialize_properties returned *)
ReceiveProperties ==
    /\ s_result.op = "serialize_properties"
    /\ s_result.ret.raised = None
    /\ d_result = NotRun
    /\ d_value' = s_result.ret.struct
    /\ d_result' = [op |-> "deserialize_properties",
                    ret |-> deserialize_properties(s_result.ret.struct, d_keep)]
    /\ UNCHANGED <<dry_run, legacy_apply, supports_secrets, d_keep,
                   s_inputs, s_transformer, s_result, resource_vars,
                   translate_vars>>

NextRound ==
    \/ SerializeProperty
    \/ SerializeProperties
    \/ ReceiveProperty
    \/ ReceiveProperties

SpecRound == InitRound /\ [][NextRound]_vars

-----------------------------------------------------------------------------

(* Properties of output resolution. *)

Cells == {"value", "known", "secret"}
Pending(slot) == \A cell \in Cells : slot[cell].state = "PENDING"
Finished(slot) == \A cell \in Cells : slot[cell].state = "FINISHED"
Fulfilled(slot) == Finished(slot) /\ \A cell \in Cells : slot[cell].exception = None
PoisonedWith(slot, exn) ==
    /\ Finished(slot)
    /\ \A cell \in Cells : slot[cell].exception = exn /\ slot[cell].result = None
Bool(b) == Mk("bool", b)

(* C1: once a slot's resolver has been invoked, every later invocation of it
   (by a direct call, by resolve_outputs or by the exception routine, with a
   value or with a failure) raises an error and leaves the slot's value,
   known and secret cells as the first invocation set them. *)
C1_ResolvedOnce ==
    [][\A key \in DOMAIN slots :
          ~Pending(slots[key]) =>
             /\ key \in DOMAIN slots'
             /\ slots'[key] = slots[key]
             /\ (ncalls' # ncalls /\ last_call'.calls[key] > 0)
                   => last_call'.raised = InvalidStateError]_vars

(* A slot poisoned by a first invocation, then invoked with a value: the
   second invocation raised and the slot still carries the failure. *)
C1_Witness ==
    /\ ncalls = 2
    /\ last_call.op = "resolver"
    /\ last_call.exn = None
    /\ last_call.raised = InvalidStateError
    /\ last_call.key \in DOMAIN slots
    /\ PoisonedWith(slots[last_call.key], Str("E1"))

(* C2: when resolve_outputs, run on slots that are all pending, returns
   normally, it has invoked every resolver of the map exactly once and no
   slot is left pending. *)
C2_EveryResolverOnce ==
    (last_call.op = "resolve_outputs" /\ last_call.fresh /\ last_call.raised = None)
        => \A key \in Range(resolver_keys) :
              last_call.calls[key] = 1 /\ Finished(slots[key])

(* Two wire keys of the outputs translate to the same name, which has a
   resolver, and a second resolver's property is in the inputs only. *)
C2_Witness ==
    /\ last_call.op = "resolve_outputs" /\ last_call.fresh /\ last_call.raised = None
    /\ {"firstArg", "first_arg"} \subseteq DOMAIN Val(last_call.outputs)
    /\ "x" \in DOMAIN Val(last_call.serialized_props)
    /\ Range(resolver_keys) = {"first_arg", "x"}
    /\ \A key \in Range(resolver_keys) : Finished(slots[key])

(* C3: after resolve_outputs_due_to_exception(resolvers, E) has run on slots
   that are all pending, every slot carries E in its three cells, and every
   reader whose await has returned, suspended before the call or started
   after it, got E and no value. *)
C3_PoisonedForAll ==
    (last_call.op = "resolve_outputs_due_to_exception" /\ last_call.fresh)
        => /\ last_call.raised = None
           /\ \A key \in Range(resolver_keys) : PoisonedWith(slots[key], last_call.exn)
           /\ \A r \in DOMAIN readers :
                 readers[r].st = "done"
                    => readers[r].exception = last_call.exn /\ readers[r].result = None

(* A reader suspended on a pending cell was resumed with E2 by the routine. *)
C3_Witness ==
    /\ last_call.op = "resolve_outputs_due_to_exception" /\ last_call.fresh
    /\ last_call.exn = Str("E2")
    /\ Len(resolver_keys) = 2
    /\ \E r \in DOMAIN readers :
          /\ readers[r].st = "done"
          /\ readers[r].suspended
          /\ readers[r].exception = Str("E2")

(* C4: in every state, the three cells of a slot are all pending, all
   fulfilled, or all poisoned with the same failure. *)
C4_TripleTogether ==
    \A key \in DOMAIN slots :
        \/ Pending(slots[key])
        \/ Fulfilled(slots[key])
        \/ \E exn \in Exceptions : PoisonedWith(slots[key], exn)

(* A reader reads a cell of a fulfilled slot while another slot of the same
   resource is still pending. *)
C4_Witness ==
    /\ \E key \in DOMAIN slots : Pending(slots[key])
    /\ \E r \in DOMAIN readers :
          /\ readers[r].st = "done"
          /\ readers[r].exception = None
          /\ Fulfilled(slots[readers[r].key])

(* A resolve_outputs that ran on pending slots and returned normally. *)
Resolved ==
    last_call.op = "resolve_outputs" /\ last_call.fresh /\ last_call.raised = None

WireOutputs == Val(last_call.outputs)
WireInputs == Val(last_call.serialized_props)

(* The wire keys of the engine's outputs and of the original inputs that
   translate to the declared property p. *)
ReportedKeys(p) == {k \in DOMAIN WireOutputs : translate_output_property(k) = p}
InputKeys(p) == {k \in DOMAIN WireInputs : translate_output_property(k) = p}

(* C5: in a preview, resolve_outputs gives known=true only to a slot whose
   value is an actual value (neither None nor the unknown marker), and a
   property the engine did not report, or reported as the not-yet-known
   sentinel, gets known=false. *)
C5_PreviewKnownOnlyWithValue ==
    (Resolved /\ dry_run)
        => \A p \in Range(resolver_keys) :
              /\ slots[p].known.result = Bool(TRUE)
                    => slots[p].value.result \notin {None, Unknown}
              /\ (\A k \in ReportedKeys(p) : WireOutputs[k] = Str(UNKNOWN))
                    => slots[p].known.result = Bool(FALSE)

IsSecretDict(v) ==
    /\ Tag(v) = "dict"
    /\ _special_sig_key \in DOMAIN Val(v)
    /\ Val(v)[_special_sig_key] = Str(_special_secret_sig)

(* The value and the secret flag a slot is to get for the property value v. *)
Expected(v) ==
    IF IsSecretDict(v) THEN <<Val(v)["value"], Bool(TRUE)>> ELSE <<v, Bool(FALSE)>>

Delivered(p) == <<slots[p].value.result, slots[p].secret.result>>

(* C6: in a real deployment every slot ends resolve_outputs fulfilled with
   known=true: (value, true, secret) when its name is in the authoritative
   set, (None, true, false) when it is not. *)
C6_ApplyAlwaysKnown ==
    (Resolved /\ ~dry_run)
        => \A p \in Range(resolver_keys) :
              /\ Fulfilled(slots[p])
              /\ slots[p].known.result = Bool(TRUE)
              /\ Delivered(p) =
                    IF p \in Keys(last_call.all_properties)
                    THEN Expected(Lookup(last_call.all_properties, p))
                    ELSE <<None, Bool(FALSE)>>

(* A real deployment in which one slot got a secret value and another, whose
   property was neither reported nor an input, got (None, true, false). *)
C6_Witness ==
    /\ Resolved /\ ~dry_run
    /\ Range(resolver_keys) = {"x", "first_arg"}
    /\ "first_arg" \notin Keys(last_call.all_properties)
    /\ slots["first_arg"].value.result = None
    /\ slots["first_arg"].known.result = Bool(TRUE)
    /\ slots["x"].secret.result = Bool(TRUE)
    /\ slots["x"].value.result = Str("s")

(* The deserialized and hydrated value of the wire value w under the key k. *)
Hydrated(k, w) ==
    translate_output_properties(deserialize_property(w, FALSE),
                                Get(_output_types("Resource"), k))

(* The engine's outputs that the deserialized outputs contain for p. *)
OutputKeys(p) ==
    {k \in ReportedKeys(p) : deserialize_property(WireOutputs[k], FALSE) # None}

(* C7: the slot of a declared property p gets the engine's output for p when
   the deserialized outputs contain p; otherwise, when the run is a real
   deployment or legacy apply is enabled and the inputs contain p, the
   hydrated original input; otherwise None.  A preview with legacy apply,
   outputs without "x" and the input "x": "seed" gives ("seed", true, false). *)
C7_MergeRule ==
    Resolved
        => /\ \A p \in Range(resolver_keys) :
                 IF OutputKeys(p) # {}
                 THEN Delivered(p) \in
                          {Expected(Hydrated(k, WireOutputs[k])) : k \in OutputKeys(p)}
                 ELSE IF (~dry_run \/ legacy_apply) /\ InputKeys(p) # {}
                 THEN Delivered(p) \in
                          {Expected(Hydrated(k, WireInputs[k])) : k \in InputKeys(p)}
                 ELSE Delivered(p) = <<None, Bool(FALSE)>>
           /\ ( /\ dry_run /\ legacy_apply
                /\ "x" \in Range(resolver_keys)
                /\ "x" \notin DOMAIN WireOutputs
                /\ "x" \in DOMAIN WireInputs
                /\ WireInputs["x"] = Str("seed") )
                 => /\ Delivered("x") = <<Str("seed"), Bool(FALSE)>>
                    /\ slots["x"].known.result = Bool(TRUE)

(* Scenario C: the preview's backfill gave slot "x" the input "seed", while
   the engine's output won for another property that was also an input. *)
C7_Witness ==
    /\ Resolved /\ dry_run /\ legacy_apply
    /\ Range(resolver_keys) = {"x", "first_arg"}
    /\ "x" \notin DOMAIN WireOutputs
    /\ WireInputs = ("x" :> Str("seed") @@ "firstArg" :> Str("seed"))
    /\ "firstArg" \in DOMAIN WireOutputs
    /\ slots["x"].value.result = Str("seed")
    /\ slots["x"].known.result = Bool(TRUE)
    /\ slots["first_arg"].value.result = Str("out")

-----------------------------------------------------------------------------
(* Properties of serialization. *)

(* The fields of an asset or archive v that serialization reaches: the
   first of its alternatives that v has. *)
FirstOf(fields, v) ==
    LET has == {i \in DOMAIN fields : fields[i] \in DOMAIN Val(v)}
    IN  IF has = {} THEN {} ELSE {fields[CHOOSE i \in has : \A j \in has : i <= j]}

Taken(v) ==
    IF Tag(v) = "asset" THEN FirstOf(<<"path", "text", "uri">>, v)
    ELSE FirstOf(<<"assets", "path", "uri">>, v)

(* Whether every leaf that serialization reaches in v is one it accepts:
   an asset or archive needs one of its fields, any other leaf is a value
   protobuf takes. *)
RECURSIVE Serializable(_)
Serializable(v) ==
    IF Tag(v) = "list" THEN \A i \in DOMAIN Val(v) : Serializable(Val(v)[i])
    ELSE IF Tag(v) = "Unknown" THEN TRUE
    ELSE IF Tag(v) = "CustomResource" THEN Serializable(Val(v).id)
    ELSE IF Tag(v) \in {"asset", "archive"} THEN
        /\ Taken(v) # {}
        /\ \A k \in Taken(v) : Serializable(Val(v)[k])
    ELSE IF Tag(v) = "awaitable" THEN Serializable(Val(v))
    ELSE IF Tag(v) = "Output" THEN Serializable(Val(v).value)
    ELSE IF Tag(v) \in {"dict", "input_type"} THEN
        \A k \in DOMAIN Val(v) : Serializable(Val(v)[k])
    ELSE Tag(v) \in {"None", "str", "num", "bool"}

(* serialize_property has run on an Output that is not known. *)
UnknownOutputSerialized ==
    /\ s_result.op = "serialize_property"
    /\ Tag(s_inputs[1][2]) = "Output"
    /\ ~Val(s_inputs[1][2]).is_known

(* C8, as claimed: an Output that is not known serializes to the sentinel
   whatever its value is, a value that cannot be serialized included. *)
C8_AlwaysSentinel ==
    UnknownOutputSerialized => s_result.ret.val = Str(UNKNOWN)

(* C8, amended: an Output that is not known serializes to the sentinel
   whenever the serialization of its value completes (whether the value is
   secret, holds outputs or holds resources); when that serialization
   raises, the error is the call's outcome. *)
C8_SentinelWhenValueSerializes ==
    UnknownOutputSerialized
        => IF Serializable(Val(s_inputs[1][2]).value)
           THEN s_result.ret.val = Str(UNKNOWN)
           ELSE IsRaise(s_result.ret.val)

(* A secret Output that is not known and whose value is a custom resource
   gave the sentinel. *)
C8_Witness ==
    /\ UnknownOutputSerialized
    /\ Val(s_inputs[1][2]).is_secret
    /\ Tag(Val(s_inputs[1][2]).value) = "CustomResource"
    /\ s_result.ret.val = Str(UNKNOWN)
    /\ "r1" \in Range(s_result.ret.deps)

(* The resources reachable in the input value v, in every field of an asset
   or archive (AllRefs) and in the field serialization reaches (Refs). *)
RECURSIVE AllRefs(_)
AllRefs(v) ==
    IF Tag(v) = "list" THEN UNION {AllRefs(Val(v)[i]) : i \in DOMAIN Val(v)}
    ELSE IF Tag(v) = "CustomResource" THEN {Val(v).name} \cup AllRefs(Val(v).id)
    ELSE IF Tag(v) \in {"asset", "archive", "dict", "input_type"} THEN
        UNION {AllRefs(Val(v)[k]) : k \in DOMAIN Val(v)}
    ELSE IF Tag(v) = "awaitable" THEN AllRefs(Val(v))
    ELSE IF Tag(v) = "Output" THEN Val(v).resources \cup AllRefs(Val(v).value)
    ELSE {}

RECURSIVE Refs(_)
Refs(v) ==
    IF Tag(v) = "list" THEN UNION {Refs(Val(v)[i]) : i \in DOMAIN Val(v)}
    ELSE IF Tag(v) = "CustomResource" THEN {Val(v).name} \cup Refs(Val(v).id)
    ELSE IF Tag(v) \in {"asset", "archive"} THEN
        UNION {Refs(Val(v)[k]) : k \in Taken(v)}
    ELSE IF Tag(v) \in {"dict", "input_type"} THEN
        UNION {Refs(Val(v)[k]) : k \in DOMAIN Val(v)}
    ELSE IF Tag(v) = "awaitable" THEN Refs(Val(v))
    ELSE IF Tag(v) = "Output" THEN Val(v).resources \cup Refs(Val(v).value)
    ELSE {}

(* serialize_properties has run and returned. *)
PropertiesSerialized ==
    s_result.op = "serialize_properties" /\ s_result.ret.raised = None

TranslatedName(i) ==
    IF s_transformer # NoTransformer
    THEN input_transformer_apply(s_transformer, s_inputs[i][1]) ELSE s_inputs[i][1]

(* Whether the i-th property's entry is in the struct when the call ends:
   its value did not serialize to None, and no later property with the same
   translated name took its place. *)
Serialized(i) == serialize_property(s_inputs[i][2], <<>>, s_transformer).val # None
Recorded(i) ==
    /\ Serialized(i)
    /\ \A j \in DOMAIN s_inputs :
          (j > i /\ TranslatedName(j) = TranslatedName(i)) => ~Serialized(j)

(* C10, as claimed: every resource reachable in the value of a top-level key
   is in the dependencies recorded for that key. *)
C10_AllDepsRecorded ==
    PropertiesSerialized
        => \A i \in DOMAIN s_inputs :
              AllRefs(s_inputs[i][2]) # {}
                 => /\ TranslatedName(i) \in DOMAIN s_result.ret.property_deps
                    /\ AllRefs(s_inputs[i][2])
                          \subseteq Range(s_result.ret.property_deps[TranslatedName(i)])

(* C10, amended: every resource reachable in the value of a top-level key
   whose entry is in the struct (inside an asset or archive: reachable in
   the field that is serialized) is in the dependencies recorded under the
   key's translated name; a name no property is serialized under has no
   dependencies recorded. *)
C10_DepsOfRecorded ==
    PropertiesSerialized
        => \A i \in DOMAIN s_inputs :
              IF Recorded(i)
              THEN /\ TranslatedName(i) \in DOMAIN s_result.ret.property_deps
                   /\ Refs(s_inputs[i][2])
                         \subseteq Range(s_result.ret.property_deps[TranslatedName(i)])
              ELSE (\A j \in DOMAIN s_inputs :
                       TranslatedName(j) = TranslatedName(i) => ~Serialized(j))
                      => TranslatedName(i) \notin DOMAIN s_result.ret.property_deps

(* A custom resource whose id is an Output with two resources of its own:
   the three of them are the property's dependencies. *)
C10_Witness ==
    /\ PropertiesSerialized
    /\ Len(s_inputs) = 2
    /\ Tag(s_inputs[1][2]) = "CustomResource"
    /\ Refs(s_inputs[1][2]) = {"r1", "r2", "r3"}
    /\ Recorded(1)
    /\ {"r1", "r2", "r3"} \subseteq Range(s_result.ret.property_deps[TranslatedName(1)])

-----------------------------------------------------------------------------
(* Properties of deserialization. *)

(* The sum of the numbers g[k]. *)
RECURSIVE Sum(_)
Sum(g) ==
    IF DOMAIN g = {} THEN 0
    ELSE LET k == CHOOSE j \in DOMAIN g : TRUE
         IN  g[k] + Sum([j \in DOMAIN g \ {k} |-> g[j]])

(* How many times the sentinel occurs in the wire value w as the value
   itself, a list element, a map value, the payload of a secret or inside
   the assets of an archive. *)
RECURSIVE Sentinels(_)
Sentinels(w) ==
    IF w = Str(UNKNOWN) THEN 1
    ELSE IF Tag(w) = "ListValue" THEN
        Sum([i \in DOMAIN Val(w) |-> Sentinels(Val(w)[i])])
    ELSE IF Tag(w) = "Struct" THEN
        IF _special_sig_key \notin DOMAIN Val(w) THEN
            Sum([k \in DOMAIN Val(w) |-> Sentinels(Val(w)[k])])
        ELSE IF Val(w)[_special_sig_key] = Str(_special_secret_sig)
                /\ "value" \in DOMAIN Val(w) THEN Sentinels(Val(w)["value"])
        ELSE IF Val(w)[_special_sig_key] = Str(_special_archive_sig)
                /\ "assets" \in DOMAIN Val(w) THEN Sentinels(Val(w)["assets"])
        ELSE 0
    ELSE 0

(* How many unknown markers the deserialized value r holds. *)
RECURSIVE Markers(_)
Markers(r) ==
    IF r = Unknown THEN 1
    ELSE IF Tag(r) \in {"list", "dict"} THEN
        Sum([k \in DOMAIN Val(r) |-> Markers(Val(r)[k])])
    ELSE IF Tag(r) = "archive" /\ "assets" \in DOMAIN Val(r) THEN
        Markers(Val(r)["assets"])
    ELSE 0

(* C9: every occurrence of the sentinel at any depth of a wire value (list
   element, map value, payload of a secret, inside an archive's assets)
   deserializes to the unknown marker when keep_unknowns is set or the run is
   a preview, and to None otherwise; so the result holds one marker for each
   occurrence in the first case and no marker in the second. *)
C9_UnknownAtAnyDepth ==
    (d_result.op # "none" /\ ~IsRaise(d_result.ret))
        => Markers(d_result.ret) =
              IF d_keep \/ dry_run THEN Sentinels(d_value) ELSE 0

(* A secret wrapper around the payload v, and a result without its wrapper. *)
Wrapper(v) == PyDict(_special_sig_key :> Str(_special_secret_sig) @@ "value" :> v)
Strip(r) == IF IsSecretDict(r) THEN Val(r)["value"] ELSE r

(* A wire list, or a wire map without the signature key. *)
PlainContainer(w) ==
    \/ Tag(w) = "ListValue"
    \/ Tag(w) = "Struct" /\ _special_sig_key \notin DOMAIN Val(w)

(* The container that the member results m make up, each member without
   its own wrapper: the list of them, or the map of those that are not None. *)
ContainerOf(w, m) ==
    IF Tag(w) = "ListValue" THEN PyList(m)
    ELSE PyDict([k \in {j \in DOMAIN m : m[j] # None} |-> m[k]])

StrippedContainerOf(w, m) ==
    IF Tag(w) = "ListValue" THEN PyList([k \in DOMAIN m |-> Strip(m[k])])
    ELSE PyDict([k \in {j \in DOMAIN m : m[j] # None} |-> Strip(m[k])])

(* What the members of the container w deserialize to. *)
MemberResults(w, keep) == [k \in DOMAIN Val(w) |-> deserialize_property(Val(w)[k], keep)]

(* The container w deserialized one level at a time: the members' own
   wrappers are stripped and one wrapper is put around the container when a
   member had one. *)
Bubbled(w, m) ==
    IF \E k \in DOMAIN m : IsSecretDict(m[k])
    THEN Wrapper(StrippedContainerOf(w, m))
    ELSE ContainerOf(w, m)

(* C11: deserialize_property on a wire list or a wire map without the
   signature key gives a secret wrapper exactly when a member deserializes to
   one; the payload is the container with the members' wrappers stripped;
   with containers nested in the container the secrecy goes up one level at
   a time and ends as one wrapper around the outermost container. *)
C11_SecretBubbling ==
    (d_result.op = "deserialize_property" /\ ~IsRaise(d_result.ret)
        /\ PlainContainer(d_value))
        => LET m == MemberResults(d_value, d_keep) IN
           /\ d_result.ret = Bubbled(d_value, m)
           /\ IsSecretDict(d_result.ret) <=> \E k \in DOMAIN m : IsSecretDict(m[k])
           /\ \A k \in DOMAIN m :
                 PlainContainer(Val(d_value)[k])
                    => m[k] = Bubbled(Val(d_value)[k],
                                      MemberResults(Val(d_value)[k], d_keep))

(* A list of a map whose one member is a secret: one wrapper around the
   list, the map inside it holding the bare value. *)
C11_Witness ==
    /\ d_result.op = "deserialize_property"
    /\ d_value = ListValue(<<Struct("k" :> Secret(Str("a")))>>)
    /\ d_result.ret = Wrapper(PyList(<<PyDict("k" :> Str("a"))>>))

(* Whether no map in the serialized value v, signature maps aside, has an
   entry whose value is None. *)
RECURSIVE NoNullEntries(_)
NoNullEntries(v) ==
    IF Tag(v) \in {"dict", "Struct"} THEN
        \A k \in DOMAIN Val(v) :
            /\ _special_sig_key \notin DOMAIN Val(v) => Val(v)[k] # None
            /\ NoNullEntries(Val(v)[k])
    ELSE IF Tag(v) \in {"list", "ListValue"} THEN
        \A i \in DOMAIN Val(v) : NoNullEntries(Val(v)[i])
    ELSE TRUE

(* C12: a value that serializes to None is dropped from its parent map at
   every level: neither the struct serialize_properties returns nor a map
   serialize_property makes from a dict or an input type has an entry whose
   value is None. *)
C12_NullDroppedEverywhere ==
    /\ PropertiesSerialized => NoNullEntries(s_result.ret.struct)
    /\ (s_result.op = "serialize_property" /\ ~IsRaise(s_result.ret.val))
          => NoNullEntries(s_result.ret.val)

(* Properties of a round trip. *)

(* v without the map entries whose value is None. *)
RECURSIVE WithoutNullEntries(_)
WithoutNullEntries(v) ==
    IF Tag(v) = "dict" THEN
        PyDict([k \in {j \in DOMAIN Val(v) : Val(v)[j] # None} |->
                   WithoutNullEntries(Val(v)[k])])
    ELSE IF Tag(v) = "list" THEN
        PyList([i \in DOMAIN Val(v) |-> WithoutNullEntries(Val(v)[i])])
    ELSE v

(* C13: a value built only from scalars, lists and string-keyed maps,
   serialized with no key translator and deserialized again, comes back
   equal to itself except that the map entries whose value was None are
   absent. *)
C13_RoundTrip ==
    /\ d_result.op = "deserialize_property"
          => d_result.ret = WithoutNullEntries(s_inputs[1][2])
    /\ d_result.op = "deserialize_properties"
          => d_result.ret = WithoutNullEntries(PyDict("x" :> s_inputs[1][2]))

(* Properties of translation. *)

(* A declared type with its optional-of wrapper taken off. *)
Bare(typ) == IF typ # None /\ Tag(typ) = "Union" THEN Val(typ)[1] ELSE typ

IsShape(typ) == typ # None /\ Tag(typ) \in {"Foo", "Bar"}

(* The declared type of what a map at declared type typ holds under the wire
   key k, and of what a list at declared type typ holds. *)
NestedType(typ, k) ==
    IF IsShape(typ) THEN
        IF k \in DOMAIN cls_hints(Tag(typ)) THEN cls_hints(Tag(typ))[k] ELSE None
    ELSE IF typ # None /\ Tag(typ) = "Dict" THEN Val(typ)[2]
    ELSE None

ElementType(typ) == IF typ # None /\ Tag(typ) = "List" THEN Val(typ)[1] ELSE None

(* The entries of a dict or of an instance of an output type. *)
Entries(r) == IF Tag(r) = "instance" THEN Val(r).d ELSE Val(r)

(* Whether r is v hydrated against typ0 with only the maps at object shapes
   changed: such a map is an instance of its shape holding every entry of
   the map under its translated key, every other map keeps its keys, and
   every value is hydrated against its nested declared type. *)
RECURSIVE HydratedShapesOnly(_, _, _)
HydratedShapesOnly(r, v, typ0) ==
    LET typ == Bare(typ0) IN
    IF Tag(v) = "dict" /\ IsShape(typ) THEN
        /\ Tag(r) = "instance"
        /\ Val(r).cls = Tag(typ)
        /\ DOMAIN Val(r).d = {translate_output_property(k) : k \in DOMAIN Val(v)}
        /\ \A k \in DOMAIN Val(v) :
              HydratedShapesOnly(Val(r).d[translate_output_property(k)], Val(v)[k],
                                 NestedType(typ, k))
    ELSE IF Tag(v) = "dict" THEN
        /\ Tag(r) = "dict"
        /\ DOMAIN Val(r) = DOMAIN Val(v)
        /\ \A k \in DOMAIN Val(v) :
              HydratedShapesOnly(Val(r)[k], Val(v)[k], NestedType(typ, k))
    ELSE IF Tag(v) = "list" THEN
        /\ Tag(r) = "list"
        /\ DOMAIN Val(r) = DOMAIN Val(v)
        /\ \A i \in DOMAIN Val(v) :
              HydratedShapesOnly(Val(r)[i], Val(v)[i], ElementType(typ))
    ELSE r = v

(* Whether r is v hydrated against typ0 with the keys of every map
   translated: a map at an object shape is an instance of the shape, every
   other map is a dict, each entry of the result is an entry of the map
   under its translated key (one of them where several keys translate to
   the same name), its value hydrated against the nested declared type of
   its wire key. *)
RECURSIVE HydratedAs(_, _, _)
HydratedAs(r, v, typ0) ==
    LET typ == Bare(typ0) IN
    IF Tag(v) = "dict" THEN
        /\ IF IsShape(typ) THEN Tag(r) = "instance" /\ Val(r).cls = Tag(typ)
           ELSE Tag(r) = "dict"
        /\ DOMAIN Entries(r) = {translate_output_property(k) : k \in DOMAIN Val(v)}
        /\ \A n \in DOMAIN Entries(r) :
              \E k \in DOMAIN Val(v) :
                  /\ translate_output_property(k) = n
                  /\ HydratedAs(Entries(r)[n], Val(v)[k], NestedType(typ, k))
    ELSE IF Tag(v) = "list" THEN
        /\ Tag(r) = "list"
        /\ DOMAIN Val(r) = DOMAIN Val(v)
        /\ \A i \in DOMAIN Val(v) :
              HydratedAs(Val(r)[i], Val(v)[i], ElementType(typ))
    ELSE r = v

(* translate_output_properties has run on a map and a declared object shape *)
ShapeTranslated ==
    /\ t_result.op = "translate_output_properties"
    /\ Tag(t_output) = "dict"
    /\ IsShape(Bare(t_typ))

(* C14 as stated: translate_output_properties on a map and a declared object
   shape returns an instance of the shape holding the map's entries under
   their translated keys, the values hydrated against the nested declared
   type of their wire key through any nesting of optional-of, map-of and
   list-of; every map at an object shape becomes an instance of it and every
   other value is returned unchanged. *)
C14_OnlyShapesChanged ==
    ShapeTranslated => HydratedShapesOnly(t_result.ret, t_output, t_typ)

(* C14, amended: as above, but the keys of every map are translated, also
   of a map that is not at an object shape, and where several keys of a map
   translate to the same name one of their entries stands under it. *)
C14_EveryMapTranslated ==
    ShapeTranslated => HydratedAs(t_result.ret, t_output, t_typ)

C14_Witness ==
    /\ t_result.op = "translate_output_properties"
    /\ t_typ = Bar
    /\ t_output = PyDict("sixthOptionalArg" :>
                            PyDict("foo" :> PyList(<<PyDict("firstArg" :> Str("hello"))>>)))
    /\ t_result.ret = Instance("Bar", "sixthOptionalArg" :>
                          PyDict("foo" :> PyList(<<Instance("Foo", "first_arg" :> Str("hello"))>>)))

(* serialize_property has run on an asset or an archive. *)
AssetSerialized ==
    /\ s_result.op = "serialize_property"
    /\ Tag(s_inputs[1][2]) \in {"asset", "archive"}

(* C15: serializing an asset (an archive) fails unless exactly one of
   path, text, uri (of assets, path, uri) is populated: it fails when none
   is and when more than one is, and otherwise gives a signature map with
   that one field. *)
C15_ExactlyOneField ==
    AssetSerialized
        => IF Cardinality(DOMAIN Val(s_inputs[1][2])) = 1
           THEN IsRaise(s_result.ret.val)
                   \/ DOMAIN Val(s_result.ret.val)
                         = {_special_sig_key} \cup DOMAIN Val(s_inputs[1][2])
           ELSE IsRaise(s_result.ret.val)

(* C16: when serialize_property renders an input type, no key below it is
   passed through the key translator, neither its field keys nor the keys of
   the plain maps in its field values: what is returned is what is returned
   with no translator at all. *)
C16_SubtreeUntranslated ==
    (s_result.op = "serialize_property" /\ Tag(s_inputs[1][2]) = "input_type")
        => s_result.ret.val = serialize_property(s_inputs[1][2], <<>>, NoTransformer).val

(* serialize_property has run on an Output. *)
OutputSerialized ==
    /\ s_result.op = "serialize_property"
    /\ Tag(s_inputs[1][2]) = "Output"

(* C17: an Output that is known serializes to the secret signature map
   around its serialized value if and only if it is secret and the monitor
   takes secrets, and to its serialized value as it is in every other known
   case; an Output that is not known never serializes to a secret signature
   map. *)
C17_SecretWrapIff ==
    OutputSerialized
        => LET output == Val(s_inputs[1][2])
               value == serialize_property(output.value, <<>>, s_transformer).val
           IN  IF ~output.is_known THEN ~IsSecretDict(s_result.ret.val)
               ELSE IF IsRaise(value) THEN s_result.ret.val = value
               ELSE /\ s_result.ret.val = Wrapper(value)
                          <=> (output.is_secret /\ supports_secrets)
                    /\ ~(output.is_secret /\ supports_secrets)
                          => s_result.ret.val = value

(* A known secret Output of a list was wrapped for a monitor that takes
   secrets. *)
C17_Witness ==
    /\ OutputSerialized
    /\ supports_secrets
    /\ s_inputs[1][2] = Output(PyList(<<Str("a")>>), TRUE, TRUE, {"r2", "r3"})
    /\ s_result.ret.val = Wrapper(PyList(<<Str("a")>>))

(* Properties of decoding before resolving. *)

(* A resolve_outputs that ran on pending slots and raised. *)
RaisedWhileDecoding ==
    last_call.op = "resolve_outputs" /\ last_call.fresh /\ last_call.raised # None

(* C18: resolve_outputs deserializes, translates and hydrates the outputs and
   the inputs before it invokes a resolver: when it raises while decoding,
   every slot is still pending, and a resolve_outputs_due_to_exception that
   follows poisons every slot and no resolver rejects a second transition. *)
C18_DecodedBeforeResolving ==
    /\ [](RaisedWhileDecoding
             => /\ \A key \in Range(resolver_keys) : last_call.calls[key] = 0
                /\ \A key \in DOMAIN slots : Pending(slots[key]))
    /\ [][(RaisedWhileDecoding /\ last_call'.op = "resolve_outputs_due_to_exception")
             => /\ last_call'.raised = None
                /\ \A key \in Range(resolver_keys) :
                      PoisonedWith(slots'[key], last_call'.exn)]_vars

(* The outputs were decoded, the backfill of the inputs raised on an archive
   without a field, and both slots are pending. *)
C18_Witness ==
    /\ RaisedWhileDecoding
    /\ ~dry_run
    /\ Range(resolver_keys) = {"typed", "x"}
    /\ last_call.outputs = Struct("x" :> Str("out"))
    /\ "typed" \in DOMAIN Val(last_call.serialized_props)
    /\ last_call.raised = Raise("AssertionError: Invalid archive")
    /\ \A key \in DOMAIN slots : Pending(slots[key])

(* Properties of secret outputs. *)

IsWireSecret(w) ==
    /\ Tag(w) = "Struct"
    /\ _special_sig_key \in DOMAIN Val(w)
    /\ Val(w)[_special_sig_key] = Str(_special_secret_sig)
    /\ "value" \in DOMAIN Val(w)

(* The outputs with the secret signature map under the wire key k replaced
   by what it wraps. *)
WithoutWrapper(outputs, k) ==
    Struct([j \in DOMAIN Val(outputs) |->
               IF j = k THEN Val(Val(outputs)[j])["value"] ELSE Val(outputs)[j]])

(* What resolve_outputs, run on pending slots, delivers for the outputs. *)
DeliveredFor(outputs) ==
    resolve_outputs(last_call.serialized_props, outputs, resolver_keys,
                    [key \in Range(resolver_keys) |-> NewSlot],
                    SetToSeq(DOMAIN Val(outputs)),
                    SetToSeq(DOMAIN Val(last_call.serialized_props)))

(* C19: the value resolve_outputs delivers to the slot of a declared
   property whose output is wrapped in a secret signature map is the value
   it delivers for the same output without the wrapper, hydration against
   the declared type included; only the secret flag differs. *)
C19_SecrecyKeepsValue ==
    Resolved
        => \A k \in DOMAIN WireOutputs :
              (IsWireSecret(WireOutputs[k]) /\ k \in Range(resolver_keys))
                 => LET plain == DeliveredFor(WithoutWrapper(last_call.outputs, k))
                    IN  /\ plain.raised = None
                        /\ slots[k].value.result = plain.futures[k].value.result
                        /\ slots[k].known.result = plain.futures[k].known.result
                        /\ slots[k].secret.result = Bool(TRUE)
                        /\ plain.futures[k].secret.result = Bool(FALSE)

(* Properties of where secret wrappers are. *)

(* Whether a secret wrapper occurs in the deserialized value v, at its root
   or below it. *)
RECURSIVE HasSecret(_)
HasSecret(v) ==
    \/ IsSecretDict(v)
    \/ /\ Tag(v) \in {"dict", "list", "archive"}
       /\ \E k \in DOMAIN Val(v) : HasSecret(Val(v)[k])

(* C20: in what deserialize_property returns a secret wrapper occurs at most
   at the root: neither the payload of a returned wrapper nor a list element
   or map value below the root holds a secret wrapper. *)
C20_SecretOnlyAtRoot ==
    (d_result.op = "deserialize_property" /\ ~IsRaise(d_result.ret))
        => IF IsSecretDict(d_result.ret) THEN ~HasSecret(Val(d_result.ret)["value"])
           ELSE Tag(d_result.ret) \in {"dict", "list", "archive"}
                   => \A k \in DOMAIN Val(d_result.ret) : ~HasSecret(Val(d_result.ret)[k])

====
